---- MODULE Spec2Model ----
(***************************************************************************)
(* A model of the payload batching queue of src/queue.go: the Queue        *)
(* struct, Start, Append, Run, Close, Size, the age monitor goroutine and  *)
(* the intake goroutine, with the goroutines interleaved at every access   *)
(* to a shared field that is made outside payloadMutex.                    *)
(*                                                                         *)
(* Strings are modelled as follows: a Payload's Id is a natural number,    *)
(* NoId (0) standing for the empty string; Tag is a sequence of            *)
(* characters, <<>> standing for "".  Time is counted in whole seconds.    *)
(***************************************************************************)
EXTENDS Integers, Sequences, FiniteSets, TLC

\* ---------------------------------------------------------------- bounds
NProducers == 2      \* goroutines of the application that call Append directly
MaxItems   == 3      \* payloads with an identifier submitted in one run
MaxTasks   == 2      \* dispatch goroutines (go q.Run) spawned in one run
MaxTime    == 2      \* seconds of a run; the clock stops there
MaxTimeTimed == 7    \* seconds of a run in which the monitor is timely
MaxCloses  == 1      \* calls of Close made by the application
CfgMaxSize == 2      \* the non-zero MaxSize an application configures
CfgMaxAge  == 1      \* the non-zero MaxAge an application configures

\* ------------------------------------------------------ program constants
DefaultMaxSize    == 100
DefaultMaxAge     == 10
DefaultTagLen     == 12
MonitorInterval   == 2
ClosePollInterval == 1

NoId == 0

Producers == 1..NProducers
Monitor   == NProducers + 1
Intake    == NProducers + 2
Callers   == 1..(NProducers + 2)     \* the goroutines that call Append
Main      == NProducers + 3          \* the application goroutine that calls Close
Closers   == {Main, Intake}          \* the goroutines that call Close

EventKinds == {"MaxSizeDefault", "MaxAgeDefault", "TagDefault", "Started",
               "Queued", "Running", "Finished", "Stopping", "AllCompleted"}

VARIABLES
    \* the fields of Queue
    Tag, MaxSize, MaxAge, Work, EventFeed,
    payloadQueue, payloadChan, quitChan, expires, activeWork,
    \* the environment
    now,          \* time.Now(), in seconds
    feed,         \* what the EventFeed callback has received: kind -> count
    nextId,       \* the next identifier uuid.New() hands out
    \* the goroutines
    started,      \* "no": Start not called, "ok": returned nil, "error"
    launched,     \* the background goroutines Start has launched
    apc,          \* caller -> position inside Append ("idle": not in Append)
    trig,         \* caller -> the condition of line 119 that it found true
    mwake,        \* when the monitor's time.Sleep returns
    cpc,          \* closer -> position inside Close
    cwake,        \* closer -> when its time.Sleep returns
    closes,       \* calls of Close made by the application so far
    returned,     \* calls of Close that have returned so far
    tasks,        \* the goroutines spawned by "go q.Run(pls)", in spawn order
    panicked,     \* a goroutine panicked: the process is gone
    \* what the application does with the queue in this run
    load,         \* [producers, closes, seconds]
    \* history, read by the properties only
    cfg0,         \* the fields as the application set them before Start
    overlap       \* two calls of Append have been in progress at once

queueVars == <<Tag, MaxSize, MaxAge, Work, EventFeed>>
chanVars  == <<payloadChan, quitChan>>
closeVars == <<cpc, cwake, closes, returned>>
runVars   == <<started, launched, load, cfg0>>
vars == <<Tag, MaxSize, MaxAge, Work, EventFeed, payloadQueue, payloadChan,
          quitChan, expires, activeWork, now, feed, nextId, started, launched,
          apc, trig,
          mwake, cpc, cwake, closes, returned, tasks, panicked, load, cfg0,
          overlap>>

Min(a, b) == IF a < b THEN a ELSE b

\* when a time.Sleep(d) that starts now returns; the clock stops at the end
\* of the run, where every sleep returns
WakeAt(d) == Min(now + d, load.seconds)

\* ------------------------------------------------------------- helpers

\* Queue.event: forwards to EventFeed when one is set
event(f, s) == IF EventFeed THEN [f EXCEPT ![s] = @ + 1] ELSE f

\* defaultTag(n): a random string of n characters
defaultTag(n) == [i \in 1..n |-> "x"]

\* Payload{}: the zero value the monitor submits, and a closed channel yields
ZeroPayload == [Id |-> NoId, Data |-> 0]

\* Queue.NewPayload: pl = 0 stands for nil, u for the value of uuid.New()
NewPayload(pl, u) ==
    IF pl = 0 THEN [Id |-> NoId, Data |-> 0] ELSE [Id |-> u, Data |-> pl]

\* the opaque data submitted with the u-th payload
DataOf(u) == 100 + u

\* Queue.Size
Size == Len(payloadQueue)

\* DataSeq with the loop of lines 97-99 running backwards
DataSeqBackwards(Payloads) ==
    [i \in 1..Len(Payloads) |-> Payloads[Len(Payloads) + 1 - i].Data]

\* the conversion loop of Run: the Data of each payload, in order
DataSeq(Payloads) == [i \in 1..Len(Payloads) |-> Payloads[i].Data]

\* ---------------------------------------------------------------- Init

Configs ==
    [Tag : {<<>>, <<"q">>}, MaxSize : {0, CfgMaxSize}, MaxAge : {0, CfgMaxAge},
     Work : BOOLEAN, EventFeed : BOOLEAN, chans : BOOLEAN]

\* A run: the application sets the fields, then uses the queue from some
\* goroutines, for some seconds.
Workloads ==
    { [producers |-> NProducers, closes |-> 0, seconds |-> MaxTime],
      [producers |-> 1, closes |-> MaxCloses, seconds |-> MaxTime] }

InitWith(C, L) ==
    /\ cfg0 \in C
    /\ load \in L
    /\ Tag = cfg0.Tag
    /\ MaxSize = cfg0.MaxSize
    /\ MaxAge = cfg0.MaxAge
    /\ Work = cfg0.Work
    /\ EventFeed = cfg0.EventFeed
    /\ payloadQueue = <<>>
    /\ payloadChan = IF cfg0.chans THEN "open" ELSE "nil"
    /\ quitChan = IF cfg0.chans THEN "open" ELSE "nil"
    /\ expires = 0
    /\ activeWork = 0
    /\ now = 0
    /\ feed = [k \in EventKinds |-> 0]
    /\ nextId = 1
    /\ started = "no"
    /\ launched = {}
    /\ apc = [c \in Callers |-> "idle"]
    /\ trig = [c \in Callers |-> "none"]
    /\ mwake = 0
    /\ cpc = [k \in Closers |-> "idle"]
    /\ cwake = [k \in Closers |-> 0]
    /\ closes = 0
    /\ returned = 0
    /\ tasks = <<>>
    /\ panicked = FALSE
    /\ overlap = FALSE

\* Tag and EventFeed do not matter to the goroutines: the runs of Spec set
\* both, SpecStart covers every configuration.  With the source as it is
\* nothing makes the two channels: they are nil.
RunConfigs == {c \in Configs : c.Tag # <<>> /\ c.EventFeed /\ ~c.chans}

Init == InitWith(RunConfigs, Workloads)

\* --------------------------------------------------------------- Start

\* Start with the defaults of lines 33-44 applied before the check of line 30
StartDefaultsFirst ==
    /\ started = "no"
    /\ expires' = now + MaxAge
    /\ LET f1 == IF MaxSize = 0 THEN event(feed, "MaxSizeDefault") ELSE feed
           f2 == IF MaxAge = 0 THEN event(f1, "MaxAgeDefault") ELSE f1
           f3 == IF Tag = <<>> THEN event(f2, "TagDefault") ELSE f2
       IN  /\ MaxSize' = IF MaxSize = 0 THEN DefaultMaxSize ELSE MaxSize
           /\ MaxAge' = IF MaxAge = 0 THEN DefaultMaxAge ELSE MaxAge
           /\ Tag' = IF Tag = <<>> THEN defaultTag(DefaultTagLen) ELSE Tag
           /\ IF ~Work
              THEN /\ started' = "error"
                   /\ feed' = f3
                   /\ UNCHANGED <<activeWork, mwake, launched>>
              ELSE /\ activeWork' = 0
                   /\ launched' = {"monitor", "intake"}
                   /\ mwake' = WakeAt(MonitorInterval)
                   /\ feed' = event(f3, "Started")
                   /\ started' = "ok"
    /\ UNCHANGED <<Work, EventFeed, payloadQueue, payloadChan, quitChan, now,
                   nextId, apc, trig, closeVars, tasks, panicked, load, cfg0,
                   overlap>>

\* Start with the event of line 39 emitted for MaxSize as well
StartWrongEvent ==
    /\ started = "no"
    /\ expires' = now + MaxAge
    /\ IF ~Work
       THEN /\ started' = "error"
            /\ UNCHANGED <<Tag, MaxSize, MaxAge, feed, activeWork, mwake,
                           launched>>
       ELSE LET f1 == IF MaxSize = 0 THEN event(feed, "MaxAgeDefault") ELSE feed
                f2 == IF MaxAge = 0 THEN event(f1, "MaxAgeDefault") ELSE f1
                f3 == IF Tag = <<>> THEN event(f2, "TagDefault") ELSE f2
            IN  /\ MaxSize' = IF MaxSize = 0 THEN DefaultMaxSize ELSE MaxSize
                /\ MaxAge' = IF MaxAge = 0 THEN DefaultMaxAge ELSE MaxAge
                /\ Tag' = IF Tag = <<>> THEN defaultTag(DefaultTagLen) ELSE Tag
                /\ activeWork' = 0
                /\ launched' = {"monitor", "intake"}
                /\ mwake' = WakeAt(MonitorInterval)
                /\ feed' = event(f3, "Started")
                /\ started' = "ok"
    /\ UNCHANGED <<Work, EventFeed, payloadQueue, payloadChan, quitChan, now,
                   nextId, apc, trig, closeVars, tasks, panicked, load, cfg0,
                   overlap>>

\* lines 28-73
Start ==
    /\ started = "no"
    /\ expires' = now + MaxAge
    /\ IF ~Work
       THEN /\ started' = "error"
            /\ UNCHANGED <<Tag, MaxSize, MaxAge, feed, activeWork, mwake,
                           launched>>
       ELSE LET f1 == IF MaxSize = 0 THEN event(feed, "MaxSizeDefault") ELSE feed
                f2 == IF MaxAge = 0 THEN event(f1, "MaxAgeDefault") ELSE f1
                f3 == IF Tag = <<>> THEN event(f2, "TagDefault") ELSE f2
            IN  /\ MaxSize' = IF MaxSize = 0 THEN DefaultMaxSize ELSE MaxSize
                /\ MaxAge' = IF MaxAge = 0 THEN DefaultMaxAge ELSE MaxAge
                /\ Tag' = IF Tag = <<>> THEN defaultTag(DefaultTagLen) ELSE Tag
                /\ activeWork' = 0
                /\ launched' = {"monitor", "intake"}
                /\ mwake' = WakeAt(MonitorInterval)
                /\ feed' = event(f3, "Started")
                /\ started' = "ok"
    /\ UNCHANGED <<Work, EventFeed, payloadQueue, payloadChan, quitChan, now,
                   nextId, apc, trig, closeVars, tasks, panicked, load, cfg0,
                   overlap>>

Running == started = "ok" /\ ~panicked

\* -------------------------------------------------------------- Append
\* Append is not atomic: lines 111-113 and 120-125 are two critical sections
\* of payloadMutex, the reads of line 119 and the write of line 126 are made
\* outside it.  A critical section is one step; every goroutine writes
\* payloadQueue inside one, so the steps exclude each other as the mutex does.

\* return from Append to the caller's loop: the monitor sleeps again
AppendReturn(c) ==
    /\ apc' = [apc EXCEPT ![c] = "idle"]
    /\ trig' = [trig EXCEPT ![c] = "none"]
    /\ mwake' = IF c = Monitor THEN WakeAt(MonitorInterval) ELSE mwake

\* AppendEnter without the test of line 110: every payload is appended
AppendEnterStoresSentinel(c, p) ==
    /\ apc[c] = "idle"
    /\ payloadQueue' = Append(payloadQueue, p)
    /\ feed' = event(feed, "Queued")
    /\ apc' = [apc EXCEPT ![c] = "len"]
    /\ overlap' = (overlap \/ \E d \in Callers \ {c} : apc[d] # "idle")

\* lines 108-115: the call, and the append of a payload that has an Id
AppendEnter(c, p) ==
    /\ apc[c] = "idle"
    /\ IF p.Id # NoId
       THEN /\ payloadQueue' = Append(payloadQueue, p)
            /\ feed' = event(feed, "Queued")
       ELSE UNCHANGED <<payloadQueue, feed>>
    /\ apc' = [apc EXCEPT ![c] = "len"]
    /\ overlap' = (overlap \/ \E d \in Callers \ {c} : apc[d] # "idle")

\* AppendCheckLen with > for >=
AppendCheckLenStrict(c) ==
    /\ Running
    /\ apc[c] = "len"
    /\ IF Len(payloadQueue) > MaxSize
       THEN /\ apc' = [apc EXCEPT ![c] = "flush"]
            /\ trig' = [trig EXCEPT ![c] = "size"]
       ELSE /\ apc' = [apc EXCEPT ![c] = "age"]
            /\ UNCHANGED trig
    /\ UNCHANGED <<queueVars, chanVars, closeVars, runVars, payloadQueue,
                   expires, activeWork, now, feed, nextId, mwake, tasks,
                   panicked, overlap>>

\* line 119, left operand: len(q.payloadQueue) >= q.MaxSize
AppendCheckLen(c) ==
    /\ Running
    /\ apc[c] = "len"
    /\ IF Len(payloadQueue) >= MaxSize
       THEN /\ apc' = [apc EXCEPT ![c] = "flush"]
            /\ trig' = [trig EXCEPT ![c] = "size"]
       ELSE /\ apc' = [apc EXCEPT ![c] = "age"]
            /\ UNCHANGED trig
    /\ UNCHANGED <<queueVars, chanVars, closeVars, runVars, payloadQueue,
                   expires, activeWork, now, feed, nextId, mwake, tasks,
                   panicked, overlap>>

\* line 119, right operand: time.Now().After(q.expires)
AppendCheckAge(c) ==
    /\ Running
    /\ apc[c] = "age"
    /\ IF now > expires
       THEN /\ apc' = [apc EXCEPT ![c] = "flush"]
            /\ trig' = [trig EXCEPT ![c] = "age"]
            /\ UNCHANGED mwake
       ELSE AppendReturn(c)
    /\ UNCHANGED <<queueVars, chanVars, closeVars, runVars, payloadQueue,
                   expires, activeWork, now, feed, nextId, tasks, panicked,
                   overlap>>

\* the goroutine "go q.Run(pls)" starts as
NewTask(pls, why) ==
    [batch |-> pls, pl |-> <<>>, pc |-> "start", reg |-> 0, trig |-> why]

\* AppendFlush without line 124: the queue is not reset
AppendFlushKeepsQueue(c) ==
    /\ Running
    /\ apc[c] = "flush"
    /\ Len(tasks) < MaxTasks
    /\ tasks' = Append(tasks, NewTask(payloadQueue, trig[c]))
    /\ apc' = [apc EXCEPT ![c] = "reset"]
    /\ UNCHANGED <<queueVars, chanVars, closeVars, runVars, payloadQueue,
                   expires, activeWork, now, feed, nextId, trig, mwake,
                   panicked, overlap>>

\* lines 120-125: the batch is taken and handed to a new goroutine
AppendFlush(c) ==
    /\ Running
    /\ apc[c] = "flush"
    /\ Len(tasks) < MaxTasks
    /\ tasks' = Append(tasks, NewTask(payloadQueue, trig[c]))
    /\ payloadQueue' = <<>>
    /\ apc' = [apc EXCEPT ![c] = "reset"]
    /\ UNCHANGED <<queueVars, chanVars, closeVars, runVars, expires,
                   activeWork, now, feed, nextId, trig, mwake, panicked,
                   overlap>>

\* line 126, and the return
AppendReset(c) ==
    /\ Running
    /\ apc[c] = "reset"
    /\ expires' = now + MaxAge
    /\ AppendReturn(c)
    /\ UNCHANGED <<queueVars, chanVars, closeVars, runVars, payloadQueue,
                   activeWork, now, feed, nextId, tasks, panicked, overlap>>

\* a goroutine of the application calls q.Append(q.NewPayload(data))
\* (the goroutines are alike: the one that calls is the first idle one)
ProducerAppend(c) ==
    /\ Running
    /\ c <= load.producers
    /\ \A d \in 1..(c - 1) : apc[d] # "idle"
    /\ nextId <= MaxItems
    /\ AppendEnter(c, NewPayload(DataOf(nextId), nextId))
    /\ nextId' = nextId + 1
    /\ UNCHANGED <<queueVars, chanVars, closeVars, runVars, expires,
                   activeWork, now, trig, mwake, tasks, panicked>>

\* ------------------------------------------------------- the age monitor
\* MonitorCheck with the comparison of line 51 the wrong way round
MonitorCheckInverted ==
    /\ Running
    /\ "monitor" \in launched
    /\ apc[Monitor] = "idle"
    /\ now >= mwake
    /\ IF expires > now
       THEN /\ AppendEnter(Monitor, ZeroPayload)
            /\ UNCHANGED mwake
       ELSE /\ mwake' = WakeAt(MonitorInterval)
            /\ UNCHANGED <<payloadQueue, feed, apc, overlap>>
    /\ UNCHANGED <<queueVars, chanVars, closeVars, runVars, expires,
                   activeWork, now, nextId, trig, tasks, panicked>>

\* lines 47-55: the sleep returns, and the check of line 51
MonitorCheck ==
    /\ Running
    /\ "monitor" \in launched
    /\ apc[Monitor] = "idle"
    /\ now >= mwake
    /\ IF now > expires
       THEN /\ AppendEnter(Monitor, ZeroPayload)
            /\ UNCHANGED mwake
       ELSE /\ mwake' = WakeAt(MonitorInterval)
            /\ UNCHANGED <<payloadQueue, feed, apc, overlap>>
    /\ UNCHANGED <<queueVars, chanVars, closeVars, runVars, expires,
                   activeWork, now, nextId, trig, tasks, panicked>>

\* ----------------------------------------------------------------- Run
\* q.activeWork++ and q.activeWork-- are plain read-modify-writes of a field
\* that several goroutines share: the read and the write are separate steps.

UpdateTask(i, pc, reg) == [tasks EXCEPT ![i].pc = pc, ![i].reg = reg]

\* lines 91-95: the nil check, the "Running" event, the read of activeWork
RunBegin(i) ==
    /\ Running
    /\ i <= Len(tasks)
    /\ tasks[i].pc = "start"
    /\ IF ~Work
       THEN /\ tasks' = UpdateTask(i, "done", 0)
            /\ UNCHANGED feed
       ELSE /\ tasks' = UpdateTask(i, "inc", activeWork)
            /\ feed' = event(feed, "Running")
    /\ UNCHANGED <<queueVars, chanVars, closeVars, runVars, payloadQueue,
                   expires, activeWork, now, nextId, apc, trig, mwake,
                   panicked, overlap>>

\* lines 95-100: the write of activeWork, the conversion, the call of Work
RunInc(i) ==
    /\ Running
    /\ i <= Len(tasks)
    /\ tasks[i].pc = "inc"
    /\ activeWork' = tasks[i].reg + 1
    /\ tasks' = [tasks EXCEPT ![i].pc = "work", ![i].reg = 0,
                              ![i].pl = DataSeq(tasks[i].batch)]
    /\ UNCHANGED <<queueVars, chanVars, closeVars, runVars, payloadQueue,
                   expires, now, feed, nextId, apc, trig, mwake, panicked,
                   overlap>>

\* lines 100-102: Work returns, the "Finished" event, the read of activeWork.
\* The result code only goes into the event text.
WorkReturn(i) ==
    /\ Running
    /\ i <= Len(tasks)
    /\ tasks[i].pc = "work"
    /\ tasks' = UpdateTask(i, "dec", activeWork)
    /\ feed' = event(feed, "Finished")
    /\ UNCHANGED <<queueVars, chanVars, closeVars, runVars, payloadQueue,
                   expires, activeWork, now, nextId, apc, trig, mwake,
                   panicked, overlap>>

\* lines 102-104: the write of activeWork, and the return
RunDec(i) ==
    /\ Running
    /\ i <= Len(tasks)
    /\ tasks[i].pc = "dec"
    /\ activeWork' = tasks[i].reg - 1
    /\ tasks' = UpdateTask(i, "done", 0)
    /\ UNCHANGED <<queueVars, chanVars, closeVars, runVars, payloadQueue,
                   expires, now, feed, nextId, apc, trig, mwake, panicked,
                   overlap>>

\* --------------------------------------------------------------- Close

\* close(ch) of lines 134-139: skipped for a nil channel; closing a closed
\* channel panics
CloseChan(ch) == IF ch = "open" THEN "closed" ELSE ch

\* lines 133-139: the "Stopping" event and the two closes
CloseBegin(k) ==
    /\ feed' = event(feed, "Stopping")
    /\ IF payloadChan = "closed"
       THEN /\ panicked' = TRUE
            /\ UNCHANGED <<payloadChan, quitChan, cpc, cwake>>
       ELSE /\ payloadChan' = CloseChan(payloadChan)
            /\ IF quitChan = "closed"
               THEN /\ panicked' = TRUE
                    /\ UNCHANGED <<quitChan, cpc, cwake>>
               ELSE /\ quitChan' = CloseChan(quitChan)
                    /\ cpc' = [cpc EXCEPT ![k] = "poll"]
                    /\ cwake' = [cwake EXCEPT ![k] = now]
                    /\ UNCHANGED panicked

\* the application calls q.Close()
CloseCall ==
    /\ Running
    /\ cpc[Main] \in {"idle", "returned"}
    /\ closes < load.closes
    /\ closes' = closes + 1
    /\ CloseBegin(Main)
    /\ UNCHANGED <<queueVars, runVars, payloadQueue, expires, activeWork, now,
                   nextId, apc, trig, mwake, returned, tasks, overlap>>

\* ClosePoll emptying payloadQueue when it returns
ClosePollDiscards(k) ==
    /\ Running
    /\ cpc[k] = "poll"
    /\ now >= cwake[k]
    /\ IF activeWork > 0
       THEN /\ cwake' = [cwake EXCEPT ![k] = WakeAt(ClosePollInterval)]
            /\ UNCHANGED <<cpc, feed, returned, payloadQueue>>
       ELSE /\ cpc' = [cpc EXCEPT ![k] = "returned"]
            /\ feed' = event(feed, "AllCompleted")
            /\ returned' = returned + 1
            /\ payloadQueue' = <<>>
            /\ UNCHANGED cwake
    /\ UNCHANGED <<queueVars, chanVars, runVars, expires,
                   activeWork, now, nextId, apc, trig, mwake, closes, tasks,
                   panicked, overlap>>

\* lines 141-145: one test of the loop condition; the sleep, or the
\* "All Work completed" event and the return
ClosePoll(k) ==
    /\ Running
    /\ cpc[k] = "poll"
    /\ now >= cwake[k]
    /\ IF activeWork > 0
       THEN /\ cwake' = [cwake EXCEPT ![k] = WakeAt(ClosePollInterval)]
            /\ UNCHANGED <<cpc, feed, returned>>
       ELSE /\ cpc' = [cpc EXCEPT ![k] = "returned"]
            /\ feed' = event(feed, "AllCompleted")
            /\ returned' = returned + 1
            /\ UNCHANGED cwake
    /\ UNCHANGED <<queueVars, chanVars, runVars, payloadQueue, expires,
                   activeWork, now, nextId, apc, trig, mwake, closes, tasks,
                   panicked, overlap>>

\* ---------------------------------------------------- the intake goroutine
\* lines 57-70.  The goroutine is in its select when it is neither inside
\* Append nor inside Close; a receive from a nil channel never happens.
InSelect ==
    "intake" \in launched /\ apc[Intake] = "idle" /\ cpc[Intake] = "idle"

\* line 60, a payload sent on payloadChan by the application
IntakeReceive ==
    /\ Running
    /\ InSelect
    /\ payloadChan = "open"
    /\ nextId <= MaxItems
    /\ AppendEnter(Intake, NewPayload(DataOf(nextId), nextId))
    /\ nextId' = nextId + 1
    /\ UNCHANGED <<queueVars, chanVars, closeVars, runVars, expires,
                   activeWork, now, trig, mwake, tasks, panicked>>

\* line 60 on a closed payloadChan: the receive yields the zero Payload
IntakeReceiveClosed ==
    /\ Running
    /\ InSelect
    /\ payloadChan = "closed"
    /\ AppendEnter(Intake, ZeroPayload)
    /\ UNCHANGED <<queueVars, chanVars, closeVars, runVars, expires,
                   activeWork, now, nextId, trig, mwake, tasks, panicked>>

\* lines 64-67: quitChan is closed, the goroutine calls q.Close()
IntakeQuit ==
    /\ Running
    /\ InSelect
    /\ quitChan = "closed"
    /\ CloseBegin(Intake)
    /\ UNCHANGED <<queueVars, runVars, payloadQueue, expires, activeWork, now,
                   nextId, apc, trig, mwake, closes, returned, tasks,
                   overlap>>

\* ----------------------------------------------------------------- time

\* a second passes
Tick ==
    /\ Running
    /\ now < load.seconds
    /\ now' = now + 1
    /\ UNCHANGED <<queueVars, chanVars, closeVars, runVars, payloadQueue,
                   expires, activeWork, feed, nextId, apc, trig, mwake, tasks,
                   panicked, overlap>>

\* the monitor goroutine has a step to take at this instant
MonitorDue == apc[Monitor] # "idle" \/ now >= mwake

\* a second passes, the monitor goroutine having been scheduled when due
TickTimed ==
    /\ ~MonitorDue
    /\ Tick

\* ------------------------------------------------------- specifications

\* the steps of Start, of the callers of Append, of the monitor and of the
\* dispatch goroutines
QueueStep ==
    \/ Start
    \/ \E c \in Producers : ProducerAppend(c)
    \/ \E c \in Callers : AppendCheckLen(c)
    \/ \E c \in Callers : AppendCheckAge(c)
    \/ \E c \in Callers : AppendFlush(c)
    \/ \E c \in Callers : AppendReset(c)
    \/ MonitorCheck
    \/ \E i \in 1..MaxTasks : RunBegin(i)
    \/ \E i \in 1..MaxTasks : RunInc(i)
    \/ \E i \in 1..MaxTasks : WorkReturn(i)
    \/ \E i \in 1..MaxTasks : RunDec(i)

\* the steps of Close
CloseStep ==
    \/ CloseCall
    \/ \E k \in Closers : ClosePoll(k)

\* The queue as the source constructs it (nil channels: the intake goroutine
\* blocks in its select for ever), goroutines scheduled in any way.
Next == QueueStep \/ CloseStep \/ Tick

Spec == Init /\ [][Next]_vars

\* The same, every goroutine that can take a step taking one in the end
\* (the scheduler starves none), every call of Work returning and the clock
\* going on.  Nothing makes the application call Append or Close.
Fairness ==
    /\ WF_vars(Tick)
    /\ WF_vars(MonitorCheck)
    /\ \A c \in Callers :
          /\ WF_vars(AppendCheckLen(c))
          /\ WF_vars(AppendCheckAge(c))
          /\ WF_vars(AppendFlush(c))
          /\ WF_vars(AppendReset(c))
    /\ \A i \in 1..MaxTasks :
          /\ WF_vars(RunBegin(i))
          /\ WF_vars(RunInc(i))
          /\ WF_vars(WorkReturn(i))
          /\ WF_vars(RunDec(i))
    /\ \A k \in Closers : WF_vars(ClosePoll(k))

\* the runs in which the application calls Close
CloseLoads == {w \in Workloads : w.closes > 0}

InitClose == InitWith(RunConfigs, CloseLoads)

SpecFair == InitClose /\ [][Next]_vars /\ Fairness

\* The same for an application that does not call Close, the monitor
\* goroutine being scheduled as soon as it is due.
TimedLoads == { [producers |-> 1, closes |-> 0, seconds |-> MaxTimeTimed] }

InitTimed == InitWith(RunConfigs, TimedLoads)

NextTimed == QueueStep \/ TickTimed

SpecTimed == InitTimed /\ [][NextTimed]_vars

\* Start alone, over every configuration.
InitStart == InitWith(Configs, Workloads)

NextStart == Start

SpecStart == InitStart /\ [][NextStart]_vars

\* A queue whose two channels have been made.
ChanConfigs == {c \in Configs : c.Tag # <<>> /\ c.EventFeed /\ c.chans}

\* The application submits through payloadChan, not by calling Append.
ChanLoads == { [producers |-> 0, closes |-> MaxCloses, seconds |-> MaxTime] }

InitChan == InitWith(ChanConfigs, ChanLoads)

NextChan ==
    \/ Start
    \/ IntakeReceive
    \/ IntakeReceiveClosed
    \/ IntakeQuit
    \/ \E c \in Callers : AppendCheckLen(c)
    \/ \E c \in Callers : AppendCheckAge(c)
    \/ \E c \in Callers : AppendFlush(c)
    \/ \E c \in Callers : AppendReset(c)
    \/ MonitorCheck
    \/ \E i \in 1..MaxTasks : RunBegin(i)
    \/ \E i \in 1..MaxTasks : RunInc(i)
    \/ \E i \in 1..MaxTasks : WorkReturn(i)
    \/ \E i \in 1..MaxTasks : RunDec(i)
    \/ CloseStep
    \/ Tick

SpecChan == InitChan /\ [][NextChan]_vars

\* ------------------------------------------------------------ properties

\* the payloads that have been appended so far carry the identifiers
Appended == 1..(nextId - 1)

\* the places where the payload u is: in the queue, and in the batches
InQueue(u) == {i \in 1..Len(payloadQueue) : payloadQueue[i].Id = u}
InBatches(u) ==
    {ti \in (1..Len(tasks)) \X (1..MaxItems) :
        /\ ti[2] <= Len(tasks[ti[1]].batch)
        /\ tasks[ti[1]].batch[ti[2]].Id = u}

\* the dispatch goroutine i has called Work
Invoked(i) == tasks[i].pc \in {"work", "dec", "done"}
\* the call of Work of the dispatch goroutine i has returned
Finished(i) == tasks[i].pc \in {"dec", "done"}
NoAppendInProgress == \A c \in Callers : apc[c] = "idle"

\* C1: every payload that has been appended is in exactly one place, once:
\* in payloadQueue or in the batch of one dispatch, whatever the interleaving
\* of the callers of Append.
C1_NoLossNoDuplicate ==
    \A u \in Appended : Cardinality(InQueue(u)) + Cardinality(InBatches(u)) = 1

\* calls of Append overlapped, and their payloads are spread over two
\* dispatched batches and the queue
C1_Witness ==
    /\ overlap
    /\ Len(tasks) = 2
    /\ tasks[1].batch # <<>>
    /\ tasks[2].batch # <<>>
    /\ nextId - 1 = MaxItems

\* C5: when the calls of Append have been made one after the other and every
\* flush so far was triggered by the size, the first batch dispatched is the
\* first MaxSize payloads in the order of submission, and until the second
\* flush the payloads submitted after them are the pending ones.
C5_FirstBatch ==
    (/\ ~overlap
     /\ Len(tasks) >= 1
     /\ \A i \in 1..Len(tasks) : tasks[i].trig = "size")
    => /\ tasks[1].batch =
            [i \in 1..MaxSize |-> NewPayload(DataOf(i), i)]
       /\ Invoked(1) => tasks[1].pl = [i \in 1..MaxSize |-> DataOf(i)]
       /\ (Len(tasks) = 1 /\ \A c \in Callers : apc[c] # "flush") =>
             payloadQueue =
               [i \in 1..(nextId - 1 - MaxSize) |->
                   NewPayload(DataOf(MaxSize + i), MaxSize + i)]

\* MaxSize + 1 payloads submitted one after the other: the first MaxSize have
\* been handed to Work, the last is pending
C5_Witness ==
    /\ ~overlap
    /\ NoAppendInProgress
    /\ Len(tasks) = 1
    /\ tasks[1].trig = "size"
    /\ Invoked(1)
    /\ nextId - 1 = MaxSize + 1
    /\ Size = 1

\* C10: the payloads of a batch are in the order in which they were appended
\* to payloadQueue (identifiers are handed out in that order), and Work
\* receives their data in the same order.
C10_BatchOrder ==
    \A t \in 1..Len(tasks) :
        /\ \A i, j \in 1..Len(tasks[t].batch) :
              i < j => tasks[t].batch[i].Id < tasks[t].batch[j].Id
        /\ Invoked(t) =>
              /\ Len(tasks[t].pl) = Len(tasks[t].batch)
              /\ \A i \in 1..Len(tasks[t].batch) :
                    tasks[t].pl[i] = DataOf(tasks[t].batch[i].Id)

\* calls of Append overlapped and Work was called with a batch of several
\* payloads
C10_Witness ==
    /\ overlap
    /\ \E t \in 1..Len(tasks) : Invoked(t) /\ Len(tasks[t].batch) >= 2

\* C2: when a call of Close returns, every dispatch goroutine spawned so far
\* has finished its call of Work.
C2_CloseWaitsForDispatches ==
    [][returned' > returned => \A i \in 1..Len(tasks) : Finished(i)]_vars

\* C3: once a call of Close has returned, no dispatch goroutine enters Work
\* and activeWork is zero.
C3_NothingAfterClose ==
    [][returned > 0 =>
         /\ activeWork' = 0
         /\ \A i \in 1..Len(tasks') :
               tasks'[i].pc = "work" => (i <= Len(tasks) /\ tasks[i].pc = "work")
      ]_vars

\* C4: a call of Close that has begun to wait returns in the end.
C4_CloseReturns == (cpc[Main] = "poll") ~> (cpc[Main] = "returned")

\* C6: the time is never more than two monitor intervals past expires:
\* by then a caller of Append, if no other then the monitor with its empty
\* Payload, has found the queue expired, dispatched what was pending
\* (line 122) and set expires anew (line 126).
C6_AgeFlushInTime == Running => now <= expires + 2 * MonitorInterval

\* no producer has called Append, and the monitor has had an empty batch
\* dispatched and expires set anew
C6_Witness ==
    /\ nextId = 1
    /\ Len(tasks) >= 1
    /\ tasks[1].trig = "age"
    /\ tasks[1].batch = <<>>
    /\ cfg0.MaxAge = CfgMaxAge
    /\ expires = now + MaxAge
    /\ NoAppendInProgress

\* C7: N < MaxSize payloads appended before MaxAge seconds have passed since
\* Start (which is called at time 0): Size() is N.
C7_SizeAfterAppends ==
    (/\ Running
     /\ NoAppendInProgress
     /\ now < MaxAge
     /\ nextId - 1 < MaxSize)
    => Size = nextId - 1

\* C8: a Start that fails launches no goroutine, applies no default and
\* emits no event.
C8_FailedStart ==
    started = "error" =>
        /\ launched = {}
        /\ MaxSize = cfg0.MaxSize
        /\ MaxAge = cfg0.MaxAge
        /\ Tag = cfg0.Tag
        /\ \A k \in EventKinds : feed[k] = 0

\* Start has failed on a queue with an EventFeed and every field to default
C8_Witness ==
    /\ started = "error"
    /\ cfg0.EventFeed
    /\ cfg0.MaxSize = 0
    /\ cfg0.MaxAge = 0
    /\ cfg0.Tag = <<>>

\* the events a successful Start emits on an EventFeed: one for each field
\* that was defaulted
DefaultEvents(k, defaulted) ==
    feed[k] = IF EventFeed /\ defaulted THEN 1 ELSE 0

\* C9: after a successful Start a field that was zero or empty has its
\* default, one event having been emitted for it; a field that was set is
\* unchanged, no event having been emitted for it.
C9_Defaults ==
    started = "ok" =>
        /\ MaxSize = IF cfg0.MaxSize = 0 THEN 100 ELSE cfg0.MaxSize
        /\ MaxAge = IF cfg0.MaxAge = 0 THEN 10 ELSE cfg0.MaxAge
        /\ IF cfg0.Tag = <<>> THEN Len(Tag) = 12 ELSE Tag = cfg0.Tag
        /\ DefaultEvents("MaxSizeDefault", cfg0.MaxSize = 0)
        /\ DefaultEvents("MaxAgeDefault", cfg0.MaxAge = 0)
        /\ DefaultEvents("TagDefault", cfg0.Tag = <<>>)

\* Start has succeeded on a queue with an EventFeed and every field to
\* default
C9_Witness ==
    /\ started = "ok"
    /\ cfg0.EventFeed
    /\ cfg0.MaxSize = 0
    /\ cfg0.MaxAge = 0
    /\ cfg0.Tag = <<>>
    /\ feed["MaxSizeDefault"] = 1

\* the dispatches so far were all triggered by the size / by the age
OnlySizeTriggers == \A i \in 1..Len(tasks) : tasks[i].trig = "size"
OnlyAgeTriggers == \A i \in 1..Len(tasks) : tasks[i].trig = "age"

\* C11: with no age-triggered flush, every dispatch made because a caller
\* found the queue full carries a full batch: a queue that reached MaxSize
\* is extracted and dispatched once, never a second time as an empty or
\* partial batch.
C11_OneDispatchPerSizeTrigger ==
    OnlySizeTriggers =>
        \A i \in 1..Len(tasks) : Len(tasks[i].batch) >= MaxSize

\* C12: with no age-triggered flush, no batch has more than MaxSize
\* payloads, and the queue holds fewer than MaxSize payloads whenever no
\* call of Append is in progress.
C12_BatchAtMostMaxSize ==
    (Running /\ OnlySizeTriggers) =>
        /\ \A i \in 1..Len(tasks) : Len(tasks[i].batch) <= MaxSize
        /\ NoAppendInProgress => Size < MaxSize

\* the dispatch goroutines whose call of Work has not returned, and those
\* that have not returned from Run
Unfinished == {i \in 1..Len(tasks) : ~Finished(i)}
NotReturned == {i \in 1..Len(tasks) : tasks[i].pc # "done"}

\* C13: activeWork counts the batches extracted whose dispatch has not
\* finished (whether a dispatch between the return of Work and its own
\* return counts is left open), and so is never negative.
C13_ActiveWorkCountsDispatches ==
    Running =>
        /\ Cardinality(Unfinished) <= activeWork
        /\ activeWork <= Cardinality(NotReturned)

\* C14: expires having been set by Start or by an age-triggered flush, a
\* further age-triggered flush is made only once the time has reached
\* expires, that is MaxAge seconds after the flush that set it.
C14_OneDispatchPerExpiry ==
    [][(Len(tasks') = Len(tasks) + 1 /\ OnlyAgeTriggers')
       => now >= expires]_vars

\* C15: after a successful Start expires is the time of Start plus the
\* effective MaxAge (SpecStart: the clock stands at the time of Start).
C15_ExpiresFromEffectiveMaxAge ==
    started = "ok" => expires = now + MaxAge

\* C16: once Close has been called, the monitor goroutine terminates in the
\* end.
C16_MonitorTerminates == (closes > 0) ~> ("monitor" \notin launched)

C18_NoSentinelStored ==
    [][/\ \A i \in 1..Len(payloadQueue') : payloadQueue'[i].Id # NoId
       /\ (apc'[Monitor] # apc[Monitor] /\ apc[Monitor] # "flush")
             => payloadQueue' = payloadQueue]_vars

\* the monitor is inside Append with its empty Payload, payloads are pending
\* and neither condition of line 119 holds
C18_Witness ==
    /\ apc[Monitor] = "age"
    /\ now <= expires
    /\ Size >= 1
    /\ Size < MaxSize

C20_CloseKeepsQueue ==
    [][closeVars' # closeVars =>
          (payloadQueue' = payloadQueue /\ tasks' = tasks)]_vars

\* Close has returned with payloads pending below MaxSize, nothing having
\* been dispatched
C20_Witness ==
    /\ returned > 0
    /\ NoAppendInProgress
    /\ Size >= 1
    /\ Size < MaxSize
    /\ tasks = <<>>

====
